---- MODULE Spec2Model ----
(***************************************************************************)
(* Model of claude_recursion.py: the projection factory projection(i, n),  *)
(* the closure proj_func it returns, the composed functions f, g and h,    *)
(* and the module body (the example script) that binds the closures and    *)
(* prints the example results.                                             *)
(*                                                                         *)
(* Spec     : the module body runs top to bottom; once it has finished,    *)
(*            the main thread builds closures with projection(i, n) and    *)
(*            calls them, and calls f, g and h, on bounded inputs.         *)
(* SpecConc : the module body runs; afterwards several threads call the    *)
(*            module's closures, one line of proj_func at a time, in any   *)
(*            interleaving.                                                *)
(***************************************************************************)
EXTENDS Integers, Sequences, FiniteSets, TLC

(* ------------------------------ bounds --------------------------------- *)
\* largest arity n handed to projection(i, n)
MaxN == 3
\* the arities and indexes go down to -MaxNeg
MaxNeg == 1
\* longest argument tuple handed to a closure
MaxLen == 4
\* argument values are 0..MaxVal
MaxVal == 1
\* number of threads calling the closures concurrently
NumThreads == 2

NSet == (0 - MaxNeg)..MaxN
IdxSet == (0 - MaxNeg)..(MaxN + 1)
Values == 0..MaxVal
Threads == 1..NumThreads

\* every tuple of at most MaxLen values
ArgTuples == UNION {[1..k -> Values] : k \in 0..MaxLen}

(* --------------------------- call outcomes ----------------------------- *)
\* a call either returns a value or raises; both ValueErrors of proj_func
\* are told apart by their message
Return(v) == [kind |-> "return", val |-> v]
Raise(type, err) == [kind |-> "raise", exc |-> type, err |-> err]

\* tuple.__getitem__ with an int: 0-indexed, a negative index counts from
\* the end, anything outside raises IndexError (t is a 1-indexed sequence)
\* hands back the position instead of the element stored there
TupleGetItem_position(t, k) ==
    LET pos == IF k < 0 THEN k + Len(t) ELSE k
    IN  IF pos < 0 \/ pos >= Len(t)
        THEN Raise("IndexError", "tuple index out of range")
        ELSE Return(pos)

TupleGetItem(t, k) ==
    LET pos == IF k < 0 THEN k + Len(t) ELSE k
    IN  IF pos < 0 \/ pos >= Len(t)
        THEN Raise("IndexError", "tuple index out of range")
        ELSE Return(t[pos + 1])

(* ----------------------- projection / proj_func ------------------------ *)
\* projection(i, n): builds the closure, capturing i and n; nothing is
\* validated here
projection(i, n) == [kind |-> "function", i |-> i, n |-> n]

\* rejects too few arguments only: len(args) < n
ArityMismatch_fewer(n, args) == Len(args) < n

\* line 9: if len(args) != n
ArityMismatch(n, args) == Len(args) # n

\* tests the lower end only: i < 1
IndexOutOfRange_lower(i, n) == i < 1

\* tests the upper end only: i > n
IndexOutOfRange_upper(i, n) == i > n

\* line 11: if i < 1 or i > n
IndexOutOfRange(i, n) == i < 1 \/ i > n

\* counts the index from the end: args[-i]
proj_func_from_end(i, n, args) ==
    IF ArityMismatch(n, args) THEN Raise("ValueError", "ArityMismatch")
    ELSE IF IndexOutOfRange(i, n) THEN Raise("ValueError", "IndexOutOfRange")
    ELSE TupleGetItem(args, 0 - i)

\* tests the index before the arity
proj_func_index_first(i, n, args) ==
    IF IndexOutOfRange(i, n) THEN Raise("ValueError", "IndexOutOfRange")
    ELSE IF ArityMismatch(n, args) THEN Raise("ValueError", "ArityMismatch")
    ELSE TupleGetItem(args, i - 1)

\* proj_func(*args) of the closure that captured i and n
proj_func(i, n, args) ==
    IF ArityMismatch(n, args) THEN Raise("ValueError", "ArityMismatch")
    ELSE IF IndexOutOfRange(i, n) THEN Raise("ValueError", "IndexOutOfRange")
    ELSE TupleGetItem(args, i - 1)

\* calling a closure object
Apply(c, args) == proj_func(c.i, c.n, args)

(* ------------------------ composed functions --------------------------- *)
\* forgets the + 1
successor_same(n) == n

\* Python integers do not overflow
successor(n) == n + 1

zero == 0

add(a, b) == a + b

\* f(x, y) = successor(P_1_2(x, y)); P_1_2 is looked up in the module
\* globals e when f runs; an exception of the inner call propagates
f(e, x, y) ==
    LET r == Apply(e["P_1_2"], <<x, y>>)
    IN  IF r.kind = "raise" THEN r ELSE Return(successor(r.val))

\* projects the first argument instead of the second
g_first(e, x, y, z) ==
    LET r == Apply(e["P_1_3"], <<x, y, z>>)
    IN  IF r.kind = "raise" THEN r ELSE Return(successor(r.val))

\* g(x, y, z) = successor(P_2_3(x, y, z))
g(e, x, y, z) ==
    LET r == Apply(e["P_2_3"], <<x, y, z>>)
    IN  IF r.kind = "raise" THEN r ELSE Return(successor(r.val))

\* adds the first argument to the second
h_both(e, x, y) ==
    LET r1 == Apply(e["P_1_2"], <<x, y>>)
        r2 == Apply(e["P_2_2"], <<x, y>>)
    IN  IF r1.kind = "raise" THEN r1
        ELSE IF r2.kind = "raise" THEN r2
        ELSE Return(add(r1.val, r2.val))

\* h(x, y) = add(P_1_2(x, y), P_1_2(x, y))
h(e, x, y) ==
    LET r1 == Apply(e["P_1_2"], <<x, y>>)
        r2 == Apply(e["P_1_2"], <<x, y>>)
    IN  IF r1.kind = "raise" THEN r1
        ELSE IF r2.kind = "raise" THEN r2
        ELSE Return(add(r1.val, r2.val))

(* --------------------------- the module body --------------------------- *)
Bind(name, i, n, line) == [op |-> "bind", name |-> name, i |-> i, n |-> n, line |-> line]
Header(text, line) == [op |-> "header", text |-> text, line |-> line]
PrintCall(text, name, args, line) ==
    [op |-> "call", text |-> text, fn |-> name, args |-> args, line |-> line]
Def(name, line) == [op |-> "def", name |-> name, line |-> line]
AssignData(val, line) == [op |-> "data", val |-> val, line |-> line]
PrintData(text, line) == [op |-> "printdata", text |-> text, line |-> line]
PrintItem(text, k, line) == [op |-> "item", text |-> text, k |-> k, line |-> line]

\* the statements of the module, in source order
Script == <<
    Bind("P_1_3", 1, 3, 18),
    Bind("P_2_3", 2, 3, 19),
    Bind("P_3_3", 3, 3, 20),
    Bind("P_1_2", 1, 2, 22),
    Bind("P_2_2", 2, 2, 23),
    Header("=== Basic Projection Examples ===", 26),
    PrintCall("P_1^3(7, 42, 15) = {}", "P_1_3", <<7, 42, 15>>, 27),
    PrintCall("P_2^3(7, 42, 15) = {}", "P_2_3", <<7, 42, 15>>, 28),
    PrintCall("P_3^3(7, 42, 15) = {}", "P_3_3", <<7, 42, 15>>, 29),
    PrintCall("P_1^2(100, 200) = {}", "P_1_2", <<100, 200>>, 31),
    PrintCall("P_2^2(100, 200) = {}", "P_2_2", <<100, 200>>, 32),
    Header("\n=== Function Composition Example ===", 35),
    Def("successor", 37),
    Def("zero", 41),
    Def("f", 49),
    PrintCall("f(5, 99) = S(P_1^2(5, 99)) = S(5) = {}", "f", <<5, 99>>, 53),
    Def("g", 56),
    PrintCall("g(10, 7, 30) = S(P_2^3(10, 7, 30)) = S(7) = {}", "g", <<10, 7, 30>>, 60),
    Def("add", 64),
    Def("h", 68),
    PrintCall("h(6, 100) = P_1^2(6, 100) + P_1^2(6, 100) = 6 + 6 = {}", "h", <<6, 100>>, 72),
    Header("\n=== Identity Functions using Projections ===", 74),
    Bind("P_1_1", 1, 1, 76),
    PrintCall("P_1^1(42) = {} (identity function)", "P_1_1", <<42>>, 77),
    Header("\n=== Practical Analogy ===", 79),
    AssignData(<<10, 20, 30>>, 81),
    PrintData("data = {}", 82),
    PrintItem("data[0] is like P_1^3: {}", 0, 83),
    PrintItem("data[1] is like P_2^3: {}", 1, 84),
    PrintItem("data[2] is like P_3^3: {}", 2, 85)
>>

\* what a def needs from the globals when it is called
Needs(name) ==
    CASE name = "f" -> {"successor", "P_1_2"}
      [] name = "g" -> {"successor", "P_2_3"}
      [] name = "h" -> {"add", "P_1_2"}
      [] OTHER -> {}

\* evaluating name(*args) against the globals: e holds the closures bound
\* so far, d the names bound by def
CallName(e, d, name, args) ==
    IF name \in DOMAIN e THEN Apply(e[name], args)
    ELSE IF name \notin d \/ ~(Needs(name) \subseteq (d \cup DOMAIN e))
    THEN Raise("NameError", name)
    ELSE CASE name = "f" -> f(e, args[1], args[2])
           [] name = "g" -> g(e, args[1], args[2], args[3])
           [] name = "h" -> h(e, args[1], args[2])

VARIABLES
    pc,        \* index in Script of the next statement of the module body
    exc,       \* the uncaught exception that ended the module body, if any
    env,       \* module globals holding closures: name -> closure
    defined,   \* module globals bound by def or by the data assignment
    data,      \* the global data
    out,       \* the lines printed so far
    fn,        \* main thread: the closure it built last
    last,      \* main thread: its last call and the outcome
    frames     \* per thread: the running activation of proj_func

vars == <<pc, exc, env, defined, data, out, fn, last, frames>>

None == [kind |-> "none"]
Idle == [pc |-> "idle"]

Init ==
    /\ pc = 1
    /\ exc = None
    /\ env = <<>>
    /\ defined = {}
    /\ data = <<>>
    /\ out = <<>>
    /\ fn = None
    /\ last = None
    /\ frames = [t \in Threads |-> Idle]

Running == pc <= Len(Script) /\ exc = None
Loaded == pc > Len(Script) /\ exc = None

harness == <<fn, last, frames>>

\* P = projection(i, n)
ExecBind ==
    /\ Running /\ Script[pc].op = "bind"
    /\ env' = (Script[pc].name :> projection(Script[pc].i, Script[pc].n)) @@ env
    /\ pc' = pc + 1
    /\ UNCHANGED <<exc, defined, data, out, harness>>

\* print("=== ... ===")
ExecHeader ==
    /\ Running /\ Script[pc].op = "header"
    /\ out' = Append(out, [kind |-> "header", text |-> Script[pc].text])
    /\ pc' = pc + 1
    /\ UNCHANGED <<exc, env, defined, data, harness>>

\* print(f"... {name(*args)}"): an exception of the call ends the module
ExecPrintCall ==
    /\ Running /\ Script[pc].op = "call"
    /\ LET r == CallName(env, defined, Script[pc].fn, Script[pc].args)
       IN  IF r.kind = "raise"
           THEN /\ exc' = r
                /\ UNCHANGED <<pc, out>>
           ELSE /\ out' = Append(out, [kind |-> "result", text |-> Script[pc].text,
                                       val |-> r.val])
                /\ pc' = pc + 1
                /\ exc' = exc
    /\ UNCHANGED <<env, defined, data, harness>>

\* def name(...)
ExecDef ==
    /\ Running /\ Script[pc].op = "def"
    /\ defined' = defined \cup {Script[pc].name}
    /\ pc' = pc + 1
    /\ UNCHANGED <<exc, env, data, out, harness>>

\* data = (10, 20, 30)
ExecAssignData ==
    /\ Running /\ Script[pc].op = "data"
    /\ data' = Script[pc].val
    /\ defined' = defined \cup {"data"}
    /\ pc' = pc + 1
    /\ UNCHANGED <<exc, env, out, harness>>

\* print(f"data = {data}")
ExecPrintData ==
    /\ Running /\ Script[pc].op = "printdata"
    /\ IF "data" \in defined
       THEN /\ out' = Append(out, [kind |-> "tuple", text |-> Script[pc].text,
                                   items |-> data])
            /\ pc' = pc + 1
            /\ exc' = exc
       ELSE /\ exc' = Raise("NameError", "data")
            /\ UNCHANGED <<pc, out>>
    /\ UNCHANGED <<env, defined, data, harness>>

\* print(f"data[k] is like ...: {data[k]}")
ExecPrintItem ==
    /\ Running /\ Script[pc].op = "item"
    /\ LET r == IF "data" \in defined THEN TupleGetItem(data, Script[pc].k)
                ELSE Raise("NameError", "data")
       IN  IF r.kind = "raise"
           THEN /\ exc' = r
                /\ UNCHANGED <<pc, out>>
           ELSE /\ out' = Append(out, [kind |-> "result", text |-> Script[pc].text,
                                       val |-> r.val])
                /\ pc' = pc + 1
                /\ exc' = exc
    /\ UNCHANGED <<env, defined, data, harness>>

ScriptStep ==
    \/ ExecBind
    \/ ExecHeader
    \/ ExecPrintCall
    \/ ExecDef
    \/ ExecAssignData
    \/ ExecPrintData
    \/ ExecPrintItem

script == <<pc, exc, env, defined, data, out>>

(* ------------------- main thread, after the module ran ----------------- *)
\* the main thread holds no outcome and may make its next call
CanCall == Loaded /\ last = None

\* fn = projection(i, n); fn(*args)
CallProjection(i, n, args) ==
    /\ CanCall
    /\ fn' = projection(i, n)
    /\ last' = [kind |-> "call", fn |-> "proj_func", i |-> i, n |-> n, args |-> args,
                res |-> Apply(fn', args)]
    /\ UNCHANGED <<script, frames>>

\* f(x, y)
CallF(x, y) ==
    /\ CanCall
    /\ last' = [kind |-> "call", fn |-> "f", args |-> <<x, y>>,
                res |-> CallName(env, defined, "f", <<x, y>>)]
    /\ UNCHANGED <<script, fn, frames>>

\* g(x, y, z)
CallG(x, y, z) ==
    /\ CanCall
    /\ last' = [kind |-> "call", fn |-> "g", args |-> <<x, y, z>>,
                res |-> CallName(env, defined, "g", <<x, y, z>>)]
    /\ UNCHANGED <<script, fn, frames>>

\* h(x, y)
CallH(x, y) ==
    /\ CanCall
    /\ last' = [kind |-> "call", fn |-> "h", args |-> <<x, y>>,
                res |-> CallName(env, defined, "h", <<x, y>>)]
    /\ UNCHANGED <<script, fn, frames>>

\* the caller is done with the outcome and drops its references
Discard ==
    /\ last # None
    /\ last' = None
    /\ fn' = None
    /\ UNCHANGED <<script, frames>>

Next ==
    \/ ScriptStep
    \/ CanCall /\ \E i \in IdxSet, n \in NSet, args \in ArgTuples : CallProjection(i, n, args)
    \/ CanCall /\ \E x, y \in Values : CallF(x, y)
    \/ CanCall /\ \E x, y, z \in Values : CallG(x, y, z)
    \/ CanCall /\ \E x, y \in Values : CallH(x, y)
    \/ Discard

Spec == Init /\ [][Next]_vars

(* ---------------- threads calling the module's closures ---------------- *)
\* the argument tuples the module body passes to its closures
ArgPool == {Script[k].args : k \in {j \in 1..Len(Script) :
                Script[j].op = "call" /\ Script[j].fn \notin {"f", "g", "h"}}}

\* closures a thread builds for itself, with an index below and above the
\* range of the arity
OutOfRange == {<<0, 1>>, <<3, 2>>}

\* the cells and the local a running activation reads
FrameI(t) == frames[t].fn.i
FrameN(t) == frames[t].fn.n
\* args kept in one place shared by all activations: the activation that
\* started first (lowest thread) is the one every thread reads
FrameArgs_shared(t) ==
    LET active == {u \in Threads : frames[u].pc # "idle"}
    IN  frames[CHOOSE u \in active : \A w \in active : u <= w].args

FrameArgs(t) == frames[t].args

\* thread t calls the global closure name with args: a new activation
Invoke(t, name, args) ==
    /\ Loaded /\ frames[t].pc = "idle"
    /\ name \in DOMAIN env
    /\ frames' = [frames EXCEPT ![t] = [pc |-> "arity", fn |-> env[name], args |-> args]]
    /\ UNCHANGED <<script, fn, last>>

\* thread t calls projection(i, n)(*args) with a closure of its own
InvokeOwn(t, i, n, args) ==
    /\ Loaded /\ frames[t].pc = "idle"
    /\ frames' = [frames EXCEPT ![t] =
                     [pc |-> "arity", fn |-> projection(i, n), args |-> args]]
    /\ UNCHANGED <<script, fn, last>>

\* lines 9-10
CheckArity(t) ==
    /\ frames[t].pc = "arity"
    /\ frames' = [frames EXCEPT ![t] =
          IF ArityMismatch(FrameN(t), FrameArgs(t))
          THEN [pc |-> "done", fn |-> @.fn, args |-> @.args,
                res |-> Raise("ValueError", "ArityMismatch")]
          ELSE [@ EXCEPT !.pc = "index"]]
    /\ UNCHANGED <<script, fn, last>>

\* lines 11-12
CheckIndex(t) ==
    /\ frames[t].pc = "index"
    /\ frames' = [frames EXCEPT ![t] =
          IF IndexOutOfRange(FrameI(t), FrameN(t))
          THEN [pc |-> "done", fn |-> @.fn, args |-> @.args,
                res |-> Raise("ValueError", "IndexOutOfRange")]
          ELSE [@ EXCEPT !.pc = "return"]]
    /\ UNCHANGED <<script, fn, last>>

\* line 13
ReturnItem(t) ==
    /\ frames[t].pc = "return"
    /\ frames' = [frames EXCEPT ![t] =
          [pc |-> "done", fn |-> @.fn, args |-> @.args,
           res |-> TupleGetItem(FrameArgs(t), FrameI(t) - 1)]]
    /\ UNCHANGED <<script, fn, last>>

\* the caller takes the outcome; the activation is gone
Finish(t) ==
    /\ frames[t].pc = "done"
    /\ frames' = [frames EXCEPT ![t] = Idle]
    /\ UNCHANGED <<script, fn, last>>

NextConc ==
    \/ ScriptStep
    \/ \E t \in Threads, name \in DOMAIN env, args \in ArgPool : Invoke(t, name, args)
    \/ \E t \in Threads, c \in OutOfRange, args \in ArgPool : InvokeOwn(t, c[1], c[2], args)
    \/ \E t \in Threads : CheckArity(t)
    \/ \E t \in Threads : CheckIndex(t)
    \/ \E t \in Threads : ReturnItem(t)
    \/ \E t \in Threads : Finish(t)

SpecConc == Init /\ [][NextConc]_vars

(* ------------------------------ properties ----------------------------- *)
IsProjCall == last.kind = "call" /\ last.fn = "proj_func"
Called(name) == last.kind = "call" /\ last.fn = name
InRange(i, n) == 1 <= i /\ i <= n
ArityError == [kind |-> "raise", exc |-> "ValueError", err |-> "ArityMismatch"]
IndexError == [kind |-> "raise", exc |-> "ValueError", err |-> "IndexOutOfRange"]
Returned(v) == [kind |-> "return", val |-> v]

\* C1: for n >= 1 and 1 <= i <= n, projection(i, n) called with exactly n
\* arguments returns the argument at 1-indexed position i and raises nothing
C1_ReturnsIth ==
    (IsProjCall /\ last.n >= 1 /\ InRange(last.i, last.n) /\ Len(last.args) = last.n)
        => last.res = Returned(last.args[last.i])

C1_Witness ==
    /\ IsProjCall /\ last.i = 2 /\ last.n = 3
    /\ last.args = <<0, 1, 0>>
    /\ last.res = Returned(1)

\* C2: for n >= 1 and 1 <= i <= n, a call with any number of arguments other
\* than n (fewer, none, or more) raises ArityMismatch and returns nothing
C2_WrongCountRaisesArity ==
    (IsProjCall /\ last.n >= 1 /\ InRange(last.i, last.n) /\ Len(last.args) # last.n)
        => last.res = ArityError

C2_Witness ==
    /\ IsProjCall /\ last.i = 1 /\ last.n = 2
    /\ Len(last.args) = 3
    /\ last.res = ArityError

\* C3: for n >= 1 and i < 1 or i > n, projection(i, n) still yields a
\* function, and that function raises IndexOutOfRange on exactly n arguments
C3_BadIndexRaisesAtCall ==
    (IsProjCall /\ last.n >= 1 /\ ~InRange(last.i, last.n))
        => /\ fn = [kind |-> "function", i |-> last.i, n |-> last.n]
           /\ (Len(last.args) = last.n => last.res = IndexError)

C3_Witness ==
    /\ IsProjCall /\ last.i = 3 /\ last.n = 2
    /\ fn.kind = "function"
    /\ Len(last.args) = 2
    /\ last.res = IndexError

\* C4: projection(1, 1) is the identity: projection(1, 1)(v) returns v
C4_Identity ==
    (IsProjCall /\ last.i = 1 /\ last.n = 1 /\ Len(last.args) = 1)
        => last.res = Returned(last.args[1])

C4_Witness ==
    /\ IsProjCall /\ last.i = 1 /\ last.n = 1
    /\ last.args = <<1>>
    /\ last.res = Returned(1)

\* C5: f(x, y) = successor(P_1_2(x, y)) = x + 1 whatever y is, and
\* g(x, y, z) = successor(P_2_3(x, y, z)) = y + 1 whatever x and z are
C5_SuccessorOfProjection ==
    /\ Called("f") => last.res = Returned(last.args[1] + 1)
    /\ Called("g") => last.res = Returned(last.args[2] + 1)

C5_Witness ==
    /\ Called("g")
    /\ last.args = <<0, 1, 0>>
    /\ last.res = Returned(2)

\* the values the module body printed, in order, with the text they fill
Results(lines) ==
    LET picked == SelectSeq(lines, LAMBDA l : l.kind = "result")
    IN  [k \in 1..Len(picked) |-> <<picked[k].text, picked[k].val>>]

ExpectedResults == <<
    <<"P_1^3(7, 42, 15) = {}", 7>>,
    <<"P_2^3(7, 42, 15) = {}", 42>>,
    <<"P_3^3(7, 42, 15) = {}", 15>>,
    <<"P_1^2(100, 200) = {}", 100>>,
    <<"P_2^2(100, 200) = {}", 200>>,
    <<"f(5, 99) = S(P_1^2(5, 99)) = S(5) = {}", 6>>,
    <<"g(10, 7, 30) = S(P_2^3(10, 7, 30)) = S(7) = {}", 8>>,
    <<"h(6, 100) = P_1^2(6, 100) + P_1^2(6, 100) = 6 + 6 = {}", 12>>,
    <<"P_1^1(42) = {} (identity function)", 42>>,
    <<"data[0] is like P_1^3: {}", 10>>,
    <<"data[1] is like P_2^3: {}", 20>>,
    <<"data[2] is like P_3^3: {}", 30>>
>>

\* C6: the module body never ends in an exception, can always take its next
\* statement until it has run them all, and has then printed exactly the
\* fixed results 7, 42, 15, 100, 200, 6, 8, 12, 42, 10, 20, 30 in this
\* order, a prefix of them at every earlier point (so any two runs agree)
C6_FixedOutput ==
    /\ exc = None
    /\ pc <= Len(Script) => ENABLED ScriptStep
    /\ Len(Results(out)) <= Len(ExpectedResults)
    /\ Results(out) = SubSeq(ExpectedResults, 1, Len(Results(out)))
    /\ pc > Len(Script) => Results(out) = ExpectedResults

C6_Witness ==
    /\ pc > Len(Script)
    /\ exc = None
    /\ Len(out) = 17
    /\ out[Len(out)] = [kind |-> "result", text |-> "data[2] is like P_3^3: {}", val |-> 30]

\* C8: h(x, y) = add(P_1_2(x, y), P_1_2(x, y)) = x + x, whatever y is
C8_HDoublesFirst ==
    Called("h") => last.res = Returned(last.args[1] + last.args[1])

C8_Witness ==
    /\ Called("h")
    /\ last.args = <<1, 0>>
    /\ last.res = Returned(2)

\* C9: the arity check comes first: with i < 1 or i > n, a call with a number
\* of arguments other than n raises ArityMismatch, and IndexOutOfRange is
\* raised only by calls whose argument count equals n
C9_ArityBeforeIndex ==
    IsProjCall =>
        /\ (~InRange(last.i, last.n) /\ Len(last.args) # last.n) => last.res = ArityError
        /\ last.res = IndexError => Len(last.args) = last.n

C9_Witness ==
    /\ IsProjCall /\ last.i = 4 /\ last.n = 2
    /\ Len(last.args) = 1
    /\ last.res = ArityError

\* C10: a call returns a value exactly when the argument count equals n and
\* 1 <= i <= n; for n <= 0 no call returns: zero arguments with n = 0 raise
\* IndexOutOfRange and every other call raises ArityMismatch
C10_ReturnsIffValid ==
    IsProjCall =>
        /\ last.res.kind = "return" <=>
               (Len(last.args) = last.n /\ InRange(last.i, last.n))
        /\ last.n <= 0 =>
               last.res = IF last.n = 0 /\ Len(last.args) = 0
                          THEN IndexError ELSE ArityError

C10_Witness ==
    /\ IsProjCall /\ last.n = 0 /\ last.i = 1
    /\ last.args = <<>>
    /\ last.res = IndexError

\* the outcome of the call of activation fr made alone, read off the
\* closure's cells and the call's own arguments
Alone(fr) ==
    IF Len(fr.args) # fr.fn.n THEN ArityError
    ELSE IF fr.fn.i < 1 \/ fr.fn.i > fr.fn.n THEN IndexError
    ELSE Returned(fr.args[fr.fn.i])

\* C7: under any interleaving of the threads' calls, every finished call has
\* the outcome it has when made alone, and a step of one call leaves the
\* globals and every other call's activation as they were
C7_CallsIndependent ==
    /\ [](\A t \in Threads : frames[t].pc = "done" => frames[t].res = Alone(frames[t]))
    /\ [][ /\ env' = env
           /\ \A t, u \in Threads :
                 (t # u /\ frames'[t] # frames[t]) => frames'[u] = frames[u] ]_frames

C7_Witness ==
    /\ frames[1].pc = "done" /\ frames[1].args = <<100, 200>>
    /\ frames[1].res = Returned(200)
    /\ frames[2].pc = "done" /\ frames[2].args = <<7, 42, 15>>
    /\ frames[2].res = Returned(7)

====
